---------------------------- MODULE Spec2Model ----------------------------
(***************************************************************************)
(* A model of replvar: the tokenizer, the two-stage expression parser,     *)
(* the string/literal parser, the AST nodes with Resolve and IsStatic,     *)
(* and the Replace entry point.                                            *)
(*                                                                         *)
(* Text is a sequence of characters; a character is a one-character        *)
(* string, except for the control characters and the end-of-input rune,    *)
(* which carry names: "TAB", "LF", "CR", "VT", "BQ" (the backtick) and     *)
(* EOF (Go's rune -1).                                                     *)
(***************************************************************************)
EXTENDS Integers, Sequences, FiniteSets, TLC

(***************************************************************************)
(* Characters                                                              *)
(***************************************************************************)
EOF == "EOF"

Digits == {"0", "1", "2", "3", "4", "5", "6", "7", "8", "9"}

Letters ==
  {"a", "b", "c", "d", "e", "f", "g", "h", "i", "j", "k", "l", "m",
   "n", "o", "p", "q", "r", "s", "t", "u", "v", "w", "x", "y", "z",
   "A", "B", "C", "D", "E", "F", "G", "H", "I", "J", "K", "L", "M",
   "N", "O", "P", "Q", "R", "S", "T", "U", "V", "W", "X", "Y", "Z"}

Quotes == {"\"", "'", "BQ"}

\* white space without the tab
SpacesNoTab == {" ", "CR", "LF"}

Spaces == {" ", "TAB", "CR", "LF"}

DigitVal(c) ==
  CASE c = "0" -> 0 [] c = "1" -> 1 [] c = "2" -> 2 [] c = "3" -> 3
    [] c = "4" -> 4 [] c = "5" -> 5 [] c = "6" -> 6 [] c = "7" -> 7
    [] c = "8" -> 8 [] c = "9" -> 9

DigitChar(n) ==
  CASE n = 0 -> "0" [] n = 1 -> "1" [] n = 2 -> "2" [] n = 3 -> "3"
    [] n = 4 -> "4" [] n = 5 -> "5" [] n = 6 -> "6" [] n = 7 -> "7"
    [] n = 8 -> "8" [] n = 9 -> "9"

(***************************************************************************)
(* The parser's cursor over its rune buffer                                *)
(***************************************************************************)
cur(buf) == IF Len(buf) = 0 THEN EOF ELSE buf[1]

next(buf) == IF Len(buf) < 2 THEN EOF ELSE buf[2]

forward(buf) == IF Len(buf) > 0 THEN Tail(buf) ELSE buf

\* forward2 stepping over one rune only
forward2Once(buf) == IF Len(buf) > 0 THEN Tail(buf) ELSE buf

forward2(buf) == IF Len(buf) > 1 THEN Tail(Tail(buf)) ELSE <<>>

empty(buf) == Len(buf) = 0

(***************************************************************************)
(* Tokens                                                                  *)
(***************************************************************************)
operatorPrecedence(t) ==
  CASE t \in {"TokenNot", "TokenBitwiseNot"} -> 2
    [] t \in {"TokenMultiply", "TokenDivide", "TokenModulo"} -> 3
    [] t \in {"TokenAdd", "TokenSubtract"} -> 4
    [] t \in {"TokenShiftLeft", "TokenShiftRight"} -> 5
    [] t \in {"TokenLess", "TokenLessEqual", "TokenGreater",
              "TokenGreaterEqual"} -> 6
    [] t \in {"TokenEqual", "TokenDifferent"} -> 7
    [] t = "TokenAnd" -> 8
    [] t = "TokenXor" -> 9
    [] t = "TokenOr" -> 10
    [] t = "TokenLogicAnd" -> 11
    [] t = "TokenLogicOr" -> 12
    [] OTHER -> 0

MathOp(t) ==
  CASE t = "TokenAdd" -> "+"
    [] t = "TokenSubtract" -> "-"
    [] t = "TokenMultiply" -> "*"
    [] t = "TokenDivide" -> "/"
    [] t = "TokenModulo" -> "%"
    [] t = "TokenOr" -> "|"
    [] t = "TokenAnd" -> "&"
    [] t = "TokenXor" -> "^"
    [] t = "TokenLogicOr" -> "||"
    [] t = "TokenLogicAnd" -> "&&"
    [] t = "TokenEqual" -> "=="
    [] t = "TokenDifferent" -> "!="
    [] t = "TokenLess" -> "<"
    [] t = "TokenLessEqual" -> "<="
    [] t = "TokenGreater" -> ">"
    [] t = "TokenGreaterEqual" -> ">="
    [] t = "TokenShiftLeft" -> "<<"
    [] t = "TokenShiftRight" -> ">>"
    [] OTHER -> ""

IsUnary(t) == t \in {"TokenNot", "TokenBitwiseNot"}

Tok(t, d, b) == [tok |-> t, dat |-> d, buf |-> b]

RECURSIVE readNumberLoop(_, _, _)
\* readNumberToken taking every decimal point it meets
readNumberLoopDots(buf, res, hasDot) ==
  LET c == cur(buf) IN
    IF c \in Digits \/ c = "."
      THEN readNumberLoop(forward(buf), Append(res, c), hasDot)
      ELSE Tok("TokenNumber", res, buf)

readNumberLoop(buf, res, hasDot) ==
  LET c == cur(buf) IN
    IF c \in Digits THEN readNumberLoop(forward(buf), Append(res, c), hasDot)
    ELSE IF c = "." /\ ~hasDot
      THEN readNumberLoop(forward(buf), Append(res, c), TRUE)
      ELSE Tok("TokenNumber", res, buf)

readNumberToken(buf) == readNumberLoop(buf, <<>>, FALSE)

RECURSIVE readVariableLoop(_, _)
readVariableLoop(buf, res) ==
  LET c == cur(buf) IN
    IF c \in Letters \/ c \in Digits \/ c = "_"
      THEN readVariableLoop(forward(buf), Append(res, c))
      ELSE Tok("TokenVariable", res, buf)

readVariableToken(buf) == readVariableLoop(buf, <<>>)

RECURSIVE readToken(_)
readToken(buf) ==
  LET c == cur(buf)
      n == next(buf)
  IN
    CASE c \in Digits -> readNumberToken(buf)
      [] c \in Quotes -> Tok("TokenStringConstant", <<c>>, Tail(buf))
      [] c = "." -> Tok("TokenDot", <<>>, forward(buf))
      [] c = "+" -> Tok("TokenAdd", <<>>, forward(buf))
      [] c = "-" -> Tok("TokenSubtract", <<>>, forward(buf))
      [] c = "*" -> Tok("TokenMultiply", <<>>, forward(buf))
      [] c = "/" -> Tok("TokenDivide", <<>>, forward(buf))
      [] c = "%" -> Tok("TokenModulo", <<>>, forward(buf))
      [] c = "^" -> Tok("TokenXor", <<>>, forward(buf))
      [] c = "~" -> Tok("TokenBitwiseNot", <<>>, forward(buf))
      [] c = "<" ->
           IF n = "<" THEN Tok("TokenShiftLeft", <<>>, forward2(buf))
           ELSE IF n = "=" THEN Tok("TokenLessEqual", <<>>, forward2(buf))
           ELSE Tok("TokenLess", <<>>, forward(buf))
      [] c = ">" ->
           IF n = ">" THEN Tok("TokenShiftRight", <<>>, forward2(buf))
           ELSE IF n = "=" THEN Tok("TokenGreaterEqual", <<>>, forward2(buf))
           ELSE Tok("TokenGreater", <<>>, forward(buf))
      [] c = "=" ->
           IF n = "=" THEN Tok("TokenEqual", <<>>, forward2(buf))
           ELSE Tok("TokenInvalid", <<c>>, buf)
      [] c = "!" ->
           IF n = "=" THEN Tok("TokenDifferent", <<>>, forward2(buf))
           ELSE Tok("TokenNot", <<>>, forward(buf))
      [] c = "|" ->
           IF n = "|" THEN Tok("TokenLogicOr", <<>>, forward2(buf))
           ELSE Tok("TokenOr", <<>>, forward(buf))
      [] c = "&" ->
           IF n = "&" THEN Tok("TokenLogicAnd", <<>>, forward2(buf))
           ELSE Tok("TokenAnd", <<>>, forward(buf))
      [] c = "}" ->
           IF n = "}" THEN Tok("TokenVariableEnd", <<c, n>>, forward2(buf))
           ELSE Tok("TokenInvalid", <<c>>, buf)
      [] c \in Spaces -> readToken(forward(buf))
      [] OTHER ->
           IF c \in Letters \/ c = "_" THEN readVariableToken(buf)
           ELSE Tok("TokenInvalid", <<c>>, buf)

(***************************************************************************)
(* Values (Go's any): null, bool, int64, float64 (kept as its text),       *)
(* string, and the two mapping kinds varAccessOffset knows.                *)
(***************************************************************************)
Nil == [k |-> "null"]

BoolV(b) == [k |-> "bool", b |-> b]

IntV(n) == [k |-> "int", n |-> n]

FloatV(txt) == [k |-> "float", f |-> txt]

\* a uint64
UintV(n) == [k |-> "uint", n |-> n]

StrV(s) == [k |-> "str", s |-> s]

MapAny(m) == [k |-> "map[string]any", m |-> m]

MapString(m) == [k |-> "map[string]string", ms |-> m]

Ok(v) == [st |-> "ok", v |-> v]

Err(e) == [st |-> "err", e |-> e]

Panic(e) == [st |-> "panic", e |-> e]

RECURSIVE Flatten(_)
Flatten(ss) == IF ss = <<>> THEN <<>> ELSE Head(ss) \o Flatten(Tail(ss))

(***************************************************************************)
(* The typutil and pjson primitives the package calls.  They live in other *)
(* modules; they are modelled on the value kinds above from the behaviour  *)
(* the package's test vectors pin down (true prints as 1, false as 0, nil  *)
(* as the empty string, 40 equals "40.0").  A failed Math (an operand that *)
(* is no number, an operator outside + - * % | & ^) yields nil: the caller *)
(* drops the ok flag.                                                      *)
(***************************************************************************)
RECURSIVE NatToDec(_)
NatToDec(n) ==
  IF n < 10 THEN <<DigitChar(n)>>
  ELSE Append(NatToDec(n \div 10), DigitChar(n % 10))

IntToDec(n) == IF n < 0 THEN <<"-">> \o NatToDec(0 - n) ELSE NatToDec(n)

RECURSIVE DecToNat(_, _)
DecToNat(s, acc) ==
  IF s = <<>> THEN acc ELSE DecToNat(Tail(s), 10 * acc + DigitVal(Head(s)))

IsDigits(s) == Len(s) > 0 /\ \A i \in 1..Len(s) : s[i] \in Digits

DotAt(s) == IF \E i \in 1..Len(s) : s[i] = "."
            THEN CHOOSE i \in 1..Len(s) : s[i] = "." /\ \A j \in 1..(i-1) : s[j] # "."
            ELSE 0

\* digits, or digits "." digits with at most one point: what strconv accepts
\* of the texts readNumberToken produces and of the strings in the contexts
IsDecimal(s) ==
  LET d == DotAt(s) IN
    IF d = 0 THEN IsDigits(s)
    ELSE /\ IsDigits(SubSeq(s, 1, d - 1))
         /\ \A i \in (d+1)..Len(s) : s[i] \in Digits

\* a decimal whose fraction is all zeros is numerically its integer part
IsWhole(s) ==
  /\ IsDecimal(s)
  /\ LET d == DotAt(s) IN d = 0 \/ \A i \in (d+1)..Len(s) : s[i] = "0"

WholePart(s) ==
  LET d == DotAt(s) IN DecToNat(IF d = 0 THEN s ELSE SubSeq(s, 1, d - 1), 0)

AsNumber(v) ==
  CASE v.k = "int" -> [ok |-> TRUE, v |-> v]
    [] v.k = "uint" -> [ok |-> TRUE, v |-> v]
    [] v.k = "float" -> [ok |-> TRUE, v |-> v]
    [] v.k = "str" ->
         IF IsDigits(v.s) THEN [ok |-> TRUE, v |-> IntV(DecToNat(v.s, 0))]
         ELSE IF IsDecimal(v.s) THEN [ok |-> TRUE, v |-> FloatV(v.s)]
         ELSE [ok |-> FALSE, v |-> Nil]
    [] OTHER -> [ok |-> FALSE, v |-> Nil]

AsString(v) ==
  CASE v.k = "null" -> <<>>
    [] v.k = "bool" -> IF v.b THEN <<"1">> ELSE <<"0">>
    [] v.k \in {"int", "uint"} -> IntToDec(v.n)
    [] v.k = "float" -> v.f
    [] v.k = "str" -> v.s
    [] OTHER -> <<"m", "a", "p", "[", "]">>

AsBool(v) ==
  CASE v.k = "null" -> FALSE
    [] v.k = "bool" -> v.b
    [] v.k \in {"int", "uint"} -> v.n # 0
    [] v.k = "float" -> ~(IsWhole(v.f) /\ WholePart(v.f) = 0)
    [] v.k = "str" -> v.s # <<>> /\ v.s # <<"0">>
    [] OTHER -> TRUE

RECURSIVE Pow10(_)
Pow10(n) == IF n <= 0 THEN 1 ELSE 10 * Pow10(n - 1)

FracPart(s) ==
  LET d == DotAt(s) IN IF d = 0 THEN <<>> ELSE SubSeq(s, d + 1, Len(s))

\* a number value (int or float) as whole part and fraction digits
FracOf(v) == IF v.k = "int" THEN <<>> ELSE FracPart(v.f)

Scaled(v, digits) ==
  IF v.k = "int" THEN v.n * Pow10(digits)
  ELSE WholePart(v.f) * Pow10(digits)
         + DecToNat(FracOf(v), 0) * Pow10(digits - Len(FracOf(v)))

\* -1, 0 or 1: the order of two number values
NumCmp(x, y) ==
  LET digits == IF Len(FracOf(x)) > Len(FracOf(y))
                THEN Len(FracOf(x)) ELSE Len(FracOf(y))
      sx == Scaled(x, digits)
      sy == Scaled(y, digits)
  IN IF sx < sy THEN -1 ELSE IF sx > sy THEN 1 ELSE 0

\* typutil.Equal, type-tolerant: b is read as a value of a's kind.  The
\* test vectors fix it: 40 equals "40.0" and "40.1", "bar" differs from 0.
AsInt(v) ==
  CASE v.k \in {"int", "uint"} -> [ok |-> TRUE, n |-> v.n]
    [] v.k = "float" -> [ok |-> TRUE, n |-> WholePart(v.f)]
    [] v.k = "str" -> [ok |-> IsDecimal(v.s),
                       n |-> IF IsDecimal(v.s) THEN WholePart(v.s) ELSE 0]
    [] v.k = "bool" -> [ok |-> TRUE, n |-> IF v.b THEN 1 ELSE 0]
    [] OTHER -> [ok |-> FALSE, n |-> 0]

Equal(a, b) ==
  CASE a.k \in {"int", "uint"} -> AsInt(b).ok /\ AsInt(b).n = a.n
    [] a.k = "float" -> AsNumber(b).ok /\ NumCmp(a, AsNumber(b).v) = 0
    [] a.k = "str" -> AsString(b) = a.s
    [] a.k = "bool" -> AsBool(b) = a.b
    [] OTHER -> a = b

\* two's complement bitwise operators, bit by bit (x = 2 * (x \div 2) + x % 2)
BitOf(op, x, y) ==
  CASE op = "|" -> IF x = 1 \/ y = 1 THEN 1 ELSE 0
    [] op = "&" -> IF x = 1 /\ y = 1 THEN 1 ELSE 0
    [] op = "^" -> IF x # y THEN 1 ELSE 0

RECURSIVE Bitwise(_, _, _)
Bitwise(op, a, b) ==
  IF a \in {0, -1} /\ b \in {0, -1}
    THEN 0 - BitOf(op, 0 - a, 0 - b)
    ELSE BitOf(op, a % 2, b % 2) + 2 * Bitwise(op, a \div 2, b \div 2)

Math(op, a, b) ==
  IF a.k = "int" /\ b.k = "int" THEN
    CASE op = "+" -> IntV(a.n + b.n)
      [] op = "-" -> IntV(a.n - b.n)
      [] op = "*" -> IntV(a.n * b.n)
      [] op = "%" /\ a.n >= 0 /\ b.n > 0 -> IntV(a.n % b.n)
      [] op \in {"|", "&", "^"} -> IntV(Bitwise(op, a.n, b.n))
      [] OTHER -> Nil
  ELSE Nil

\* the characters of the model in byte order, for Go's string comparison
AsciiOrder ==
  <<"TAB", "LF", "VT", "CR", " ", "!", "\"", "#", "%", "&", "'", "(", ")",
    "*", "+", ",", "-", ".", "/", "0", "1", "2", "3", "4", "5", "6", "7",
    "8", "9", ":", "<", "=", ">", "?", "A", "B", "C", "D", "E", "F", "G",
    "H", "I", "J", "K", "L", "M", "N", "O", "P", "Q", "R", "S", "T", "U",
    "V", "W", "X", "Y", "Z", "[", "\\", "]", "^", "_", "BQ", "a", "b", "c",
    "d", "e", "f", "g", "h", "i", "j", "k", "l", "m", "n", "o", "p", "q",
    "r", "s", "t", "u", "v", "w", "x", "y", "z", "{", "|", "}", "~">>

CharRank(c) == CHOOSE i \in 1..Len(AsciiOrder) : AsciiOrder[i] = c

RECURSIVE StrLess(_, _)
StrLess(a, b) ==
  IF b = <<>> THEN FALSE
  ELSE IF a = <<>> THEN TRUE
  ELSE IF Head(a) = Head(b) THEN StrLess(Tail(a), Tail(b))
  ELSE CharRank(Head(a)) < CharRank(Head(b))

\* pjson.MarshalContext on the value kinds of the model (it fails on none)
JsonEscape(c) ==
  CASE c = "\"" -> <<"\\", "\"">>
    [] c = "\\" -> <<"\\", "\\">>
    [] c = "LF" -> <<"\\", "n">>
    [] c = "CR" -> <<"\\", "r">>
    [] c = "TAB" -> <<"\\", "t">>
    [] c = "VT" -> <<"\\", "u", "0", "0", "0", "b">>
    [] OTHER -> <<c>>

JsonString(s) ==
  <<"\"">> \o Flatten([i \in 1..Len(s) |-> JsonEscape(s[i])]) \o <<"\"">>

MinKey(keys) == CHOOSE x \in keys : \A y \in keys : x = y \/ StrLess(x, y)

RECURSIVE Marshal(_)
RECURSIVE MarshalFields(_, _, _)
MarshalFields(m, keys, isAny) ==
  IF keys = {} THEN <<>>
  ELSE LET x == MinKey(keys) IN
         JsonString(x) \o <<":">>
           \o (IF isAny THEN Marshal(m[x]) ELSE JsonString(m[x]))
           \o (IF keys = {x} THEN <<>> ELSE <<",">>)
           \o MarshalFields(m, keys \ {x}, isAny)

Marshal(v) ==
  CASE v.k = "null" -> <<"n", "u", "l", "l">>
    [] v.k = "bool" -> IF v.b THEN <<"t", "r", "u", "e">>
                       ELSE <<"f", "a", "l", "s", "e">>
    [] v.k \in {"int", "uint"} -> IntToDec(v.n)
    [] v.k = "float" -> v.f
    [] v.k = "str" -> JsonString(v.s)
    [] v.k = "map[string]any" ->
         <<"{">> \o MarshalFields(v.m, DOMAIN v.m, TRUE) \o <<"}">>
    [] v.k = "map[string]string" ->
         <<"{">> \o MarshalFields(v.ms, DOMAIN v.ms, FALSE) \o <<"}">>

(***************************************************************************)
(* The AST: one record shape per Var implementation                        *)
(***************************************************************************)
staticVar(v) == [t |-> "staticVar", v |-> v]

varConcat(subs) == [t |-> "varConcat", subs |-> subs]

varFetchFromCtx(name) == [t |-> "varFetchFromCtx", name |-> name]

varPendingToken(tok) == [t |-> "varPendingToken", tok |-> tok]

varNull == [t |-> "varNull"]

varNot(sub) == [t |-> "varNot", sub |-> sub]

varBitwiseNot(sub) == [t |-> "varBitwiseNot", sub |-> sub]

varAccessOffset(sub, offset) ==
  [t |-> "varAccessOffset", sub |-> sub, offset |-> offset]

varMath(a, b, op) == [t |-> "varMath", a |-> a, b |-> b, op |-> op]

varJsonMarshal(obj) == [t |-> "varJsonMarshal", obj |-> obj]

\* the error of a member access on what is no mapping: it names the member
\* and the type met
ErrLookup(offset, type) ==
  [st |-> "err", e |-> "lookup failed", offset |-> offset, type |-> type]

\* a context that answers an unknown key with the key itself
ValueEcho(ctx, name) == IF name \in DOMAIN ctx THEN ctx[name] ELSE StrV(name)

\* context.Context.Value: nil for a key the context does not hold
Value(ctx, name) == IF name \in DOMAIN ctx THEN ctx[name] ELSE Nil

\* the index expressions of varAccessOffset.Resolve: a missing key yields
\* the zero value of the map's element type
IndexAny(elem, offset) == IF offset \in DOMAIN elem THEN elem[offset] ELSE Nil

\* the string-map index made to yield nil for a missing key
IndexStringNil(elem, offset) ==
  IF offset \in DOMAIN elem THEN StrV(elem[offset]) ELSE Nil

IndexString(elem, offset) ==
  IF offset \in DOMAIN elem THEN StrV(elem[offset]) ELSE StrV(<<>>)

\* the type switch made to yield nil, not an error, in its default case
varAccessOffsetResolveNil(sub, offset) ==
  IF sub.st # "ok" THEN sub
  ELSE CASE sub.v.k = "map[string]any" -> Ok(IndexAny(sub.v.m, offset))
         [] sub.v.k = "map[string]string" -> Ok(IndexString(sub.v.ms, offset))
         [] OTHER -> Ok(Nil)

\* varAccessOffset.Resolve once its sub is resolved: the type switch
varAccessOffsetResolve(sub, offset) ==
  IF sub.st # "ok" THEN sub
  ELSE CASE sub.v.k = "map[string]any" -> Ok(IndexAny(sub.v.m, offset))
         [] sub.v.k = "map[string]string" -> Ok(IndexString(sub.v.ms, offset))
         [] OTHER -> ErrLookup(offset, sub.v.k)

\* strings.ToUpper and strings.ToLower on the letters of the model
LowerLetters ==
  <<"a", "b", "c", "d", "e", "f", "g", "h", "i", "j", "k", "l", "m", "n",
    "o", "p", "q", "r", "s", "t", "u", "v", "w", "x", "y", "z">>

UpperLetters ==
  <<"A", "B", "C", "D", "E", "F", "G", "H", "I", "J", "K", "L", "M", "N",
    "O", "P", "Q", "R", "S", "T", "U", "V", "W", "X", "Y", "Z">>

MapLetter(c, from, to) ==
  IF \E i \in 1..Len(from) : from[i] = c
    THEN to[CHOOSE i \in 1..Len(from) : from[i] = c]
    ELSE c

ToUpper(str) == [i \in 1..Len(str) |-> MapLetter(str[i], LowerLetters, UpperLetters)]

ToLower(str) == [i \in 1..Len(str) |-> MapLetter(str[i], UpperLetters, LowerLetters)]

\* the built-in filters upper and lower
filterUpper(input) == Ok(StrV(ToUpper(AsString(input))))

filterLower(input) == Ok(StrV(ToLower(AsString(input))))

RECURSIVE Pow2(_)
Pow2(n) == IF n <= 0 THEN 1 ELSE 2 * Pow2(n - 1)

\* the cmp of resolveComparison: its switches have cases for int64 and
\* float64 only, and cmp keeps its zero value when none is taken
comparisonCmp(numA, numB) ==
  IF numA.k \in {"int", "float"} /\ numB.k \in {"int", "float"}
    THEN NumCmp(numA, numB)
    ELSE 0

resolveComparison(op, a, b) ==
  LET numA == AsNumber(a)
      numB == AsNumber(b)
      strA == AsString(a)
      strB == AsString(b)
  IN
    IF numA.ok /\ numB.ok THEN
      CASE op = "<" -> Ok(BoolV(comparisonCmp(numA.v, numB.v) < 0))
        [] op = "<=" -> Ok(BoolV(comparisonCmp(numA.v, numB.v) <= 0))
        [] op = ">" -> Ok(BoolV(comparisonCmp(numA.v, numB.v) > 0))
        [] op = ">=" -> Ok(BoolV(comparisonCmp(numA.v, numB.v) >= 0))
    ELSE
      CASE op = "<" -> Ok(BoolV(StrLess(strA, strB)))
        [] op = "<=" -> Ok(BoolV(~StrLess(strB, strA)))
        [] op = ">" -> Ok(BoolV(StrLess(strB, strA)))
        [] op = ">=" -> Ok(BoolV(~StrLess(strA, strB)))

resolveShift(op, a, b) ==
  LET numA == AsNumber(a)
      numB == AsNumber(b)
      va == CASE numA.v.k = "int" -> numA.v.n
               [] numA.v.k = "float" -> WholePart(numA.v.f)
               [] OTHER -> 0
      vb == CASE numB.v.k \in {"int", "uint"} -> numB.v.n
               [] numB.v.k = "float" -> WholePart(numB.v.f)
  IN
    IF ~numA.ok \/ ~numB.ok
      THEN Err("shift operators require numeric operands")
    ELSE IF vb < 0 \/ vb >= 64
      THEN Ok(IntV(IF op = ">>" /\ va < 0 THEN -1 ELSE 0))
    ELSE IF op = "<<" THEN Ok(IntV(va * Pow2(vb)))
    ELSE Ok(IntV(va \div Pow2(vb)))

RECURSIVE Resolve(_, _)
\* varMath.Resolve with != comparing the string forms of its operands
varMathResolveText(op, a, b) ==
  CASE op = "&&" -> Ok(BoolV(AsBool(a) /\ AsBool(b)))
    [] op = "||" -> Ok(BoolV(AsBool(a) \/ AsBool(b)))
    [] op = "==" -> Ok(BoolV(Equal(a, b)))
    [] op = "!=" -> Ok(BoolV(AsString(a) # AsString(b)))
    [] op \in {"<", "<=", ">", ">="} -> resolveComparison(op, a, b)
    [] op \in {"<<", ">>"} -> resolveShift(op, a, b)
    [] OTHER -> Ok(Math(op, a, b))

\* varMath.Resolve once both operands are resolved
varMathResolve(op, a, b) ==
  CASE op = "&&" -> Ok(BoolV(AsBool(a) /\ AsBool(b)))
    [] op = "||" -> Ok(BoolV(AsBool(a) \/ AsBool(b)))
    [] op = "==" -> Ok(BoolV(Equal(a, b)))
    [] op = "!=" -> Ok(BoolV(~Equal(a, b)))
    [] op \in {"<", "<=", ">", ">="} -> resolveComparison(op, a, b)
    [] op \in {"<<", ">>"} -> resolveShift(op, a, b)
    [] OTHER -> Ok(Math(op, a, b))

\* varMath.Resolve once the right operand is resolved too
varMathApply(op, a, b) ==
  IF b.st # "ok" THEN b ELSE varMathResolve(op, a, b.v)

\* varMath.Resolve leaving the right operand of && and || alone when the left
\* one decides
varMathRightShort(a, node, ctx) ==
  IF a.st # "ok" THEN a
  ELSE IF node.op = "&&" /\ ~AsBool(a.v) THEN Ok(BoolV(FALSE))
  ELSE IF node.op = "||" /\ AsBool(a.v) THEN Ok(BoolV(TRUE))
  ELSE varMathApply(node.op, a.v, Resolve(node.b, ctx))

\* varMath.Resolve once the left operand is resolved
varMathRight(a, node, ctx) ==
  IF a.st # "ok" THEN a
  ELSE varMathApply(node.op, a.v, Resolve(node.b, ctx))

RECURSIVE ResolveConcat(_, _, _)
\* varConcat.Resolve leaving out the parts that fail
ResolveConcatPartial(subs, ctx, res) ==
  IF subs = <<>> THEN Ok(StrV(res))
  ELSE LET v == Resolve(Head(subs), ctx) IN
         IF v.st # "ok" THEN ResolveConcat(Tail(subs), ctx, res)
         ELSE ResolveConcat(Tail(subs), ctx, res \o AsString(v.v))

ResolveConcat(subs, ctx, res) ==
  IF subs = <<>> THEN Ok(StrV(res))
  ELSE LET v == Resolve(Head(subs), ctx) IN
         IF v.st # "ok" THEN v
         ELSE ResolveConcat(Tail(subs), ctx, res \o AsString(v.v))

Resolve(node, ctx) ==
  CASE node.t = "staticVar" -> Ok(node.v)
    [] node.t = "varConcat" -> ResolveConcat(node.subs, ctx, <<>>)
    [] node.t = "varFetchFromCtx" -> Ok(Value(ctx, node.name))
    [] node.t = "varPendingToken" ->
         Err("this value should never happen (pending token)")
    [] node.t = "varNull" -> Ok(Nil)
    [] node.t = "varNot" ->
         LET sub == Resolve(node.sub, ctx) IN
           IF sub.st # "ok" THEN sub ELSE Ok(BoolV(~AsBool(sub.v)))
    [] node.t = "varBitwiseNot" ->
         LET sub == Resolve(node.sub, ctx) IN
           IF sub.st # "ok" THEN sub
           ELSE LET num == AsNumber(sub.v) IN
             IF ~num.ok THEN Err("bitwise NOT requires numeric operand")
             ELSE IF num.v.k = "int" THEN Ok(IntV(0 - num.v.n - 1))
             ELSE IF num.v.k = "uint" THEN Ok(UintV(Pow2(64) - 1 - num.v.n))
             ELSE Ok(IntV(0 - WholePart(num.v.f) - 1))
    [] node.t = "varAccessOffset" ->
         varAccessOffsetResolve(Resolve(node.sub, ctx), node.offset)
    [] node.t = "varMath" -> varMathRight(Resolve(node.a, ctx), node, ctx)
    [] node.t = "varJsonMarshal" ->
         LET res == Resolve(node.obj, ctx) IN
           IF res.st # "ok" THEN res ELSE Ok(StrV(Marshal(res.v)))

RECURSIVE IsStatic(_)
\* IsStatic made to call a context lookup static
IsStaticWithLookup(node) ==
  CASE node.t = "varConcat" ->
         \A i \in 1..Len(node.subs) : IsStatic(node.subs[i])
    [] node.t \in {"varNot", "varBitwiseNot", "varAccessOffset"} ->
         IsStatic(node.sub)
    [] node.t = "varMath" -> IsStatic(node.a) /\ IsStatic(node.b)
    [] node.t = "varJsonMarshal" -> IsStatic(node.obj)
    [] OTHER -> TRUE

IsStatic(node) ==
  CASE node.t = "staticVar" -> TRUE
    [] node.t = "varConcat" ->
         \A i \in 1..Len(node.subs) : IsStatic(node.subs[i])
    [] node.t = "varFetchFromCtx" -> FALSE
    [] node.t = "varPendingToken" -> TRUE
    [] node.t = "varNull" -> TRUE
    [] node.t = "varNot" -> IsStatic(node.sub)
    [] node.t = "varBitwiseNot" -> IsStatic(node.sub)
    [] node.t = "varAccessOffset" -> IsStatic(node.sub)
    [] node.t = "varMath" -> IsStatic(node.a) /\ IsStatic(node.b)
    [] node.t = "varJsonMarshal" -> IsStatic(node.obj)

(***************************************************************************)
(* The parser.  parse and parseString return the outcome (a Var, an error, *)
(* or a run-time panic of the Go code) and the buffer left to read.        *)
(***************************************************************************)
\* an escape table that decodes nothing: each letter stands for itself
escapedCharsIdentity == [c \in {"r", "n", "t", "v", "\\"} |-> c]

escapedChars ==
  [c \in {"r", "n", "t", "v", "\\"} |->
     CASE c = "r" -> "CR" [] c = "n" -> "LF" [] c = "t" -> "TAB"
       [] c = "v" -> "VT" [] c = "\\" -> "\\"]

ErrUnexpectedEOF == "unexpected EOF"

Ret(out, buf) == [out |-> out, buf |-> buf]

\* Stage 2 of parse: associate the pending tokens with their operands
RECURSIVE stage2(_)
\* stage 2 made to group a chain of binary operators from the right
stage2RightToLeft(res) ==
  IF Len(res) = 1 THEN Ok(res[1])
  ELSE IF Len(res) >= 3 /\ res[2].t = "varPendingToken"
          /\ MathOp(res[2].tok) # ""
    THEN IF stage2(SubSeq(res, 3, Len(res))).st # "ok"
           THEN stage2(SubSeq(res, 3, Len(res)))
           ELSE Ok(varMath(res[1], stage2(SubSeq(res, 3, Len(res))).v,
                           MathOp(res[2].tok)))
    ELSE Err("step 2: unexpected token")

stage2(res) ==
  IF Len(res) = 1 THEN Ok(res[1])
  ELSE IF res[1].t = "varPendingToken" THEN
    IF res[1].tok = "TokenNot"
      THEN stage2(<<varNot(res[2])>> \o SubSeq(res, 3, Len(res)))
      ELSE Err("step 2: unexpected token")
  ELSE IF res[2].t = "varPendingToken" THEN
    IF res[2].tok = "TokenDot" THEN
      IF Len(res) < 3 THEN Panic("index out of range [2] with length 2")
      ELSE IF res[3].t = "varFetchFromCtx"
        THEN stage2(<<varAccessOffset(res[1], res[3].name)>>
                      \o SubSeq(res, 4, Len(res)))
        ELSE Err("invalid syntax: dot not followed by var")
    ELSE IF MathOp(res[2].tok) # "" THEN
      IF Len(res) < 3 THEN Panic("index out of range [2] with length 2")
      ELSE stage2(<<varMath(res[1], res[3], MathOp(res[2].tok))>>
                    \o SubSeq(res, 4, Len(res)))
    ELSE Err("step 2: unexpected token")
  ELSE Err("invalid syntax: expected token in 1st or 2nd position of res")

RECURSIVE parseString(_, _, _)
RECURSIVE stage1(_, _, _)
RECURSIVE parseStringLoop(_, _, _, _, _)

\* Stage 1 of parse: the tokenization loop.  stage1Token is the switch on
\* the token read, stage1String the string-constant case once the literal
\* has been parsed.
RECURSIVE stage1Token(_, _, _)
RECURSIVE stage1String(_, _, _)
stage1(buf, varStart, res) ==
  IF empty(buf) THEN
    IF varStart THEN Ret(Err(ErrUnexpectedEOF), buf) ELSE Ret(Ok(res), buf)
  ELSE stage1Token(readToken(buf), varStart, res)

stage1String(sub, varStart, res) ==
  IF sub.out.st # "ok" THEN sub
  ELSE stage1(sub.buf, varStart, Append(res, sub.out.v))

stage1Token(tk, varStart, res) ==
  CASE tk.tok = "TokenVariableEnd" ->
         IF ~varStart THEN Ret(Err("unexpected token }}"), tk.buf)
         ELSE Ret(Ok(res), tk.buf)
    [] tk.tok = "TokenStringConstant" ->
         stage1String(parseString(tk.buf, tk.dat[1], "text"), varStart, res)
    [] tk.tok = "TokenNumber" ->
         IF ~AsNumber(StrV(tk.dat)).ok THEN Ret(Err("invalid number"), tk.buf)
         ELSE stage1(tk.buf, varStart,
                     Append(res, staticVar(AsNumber(StrV(tk.dat)).v)))
    [] tk.tok = "TokenVariable" ->
         stage1(tk.buf, varStart, Append(res, varFetchFromCtx(tk.dat)))
    [] tk.tok = "TokenInvalid" ->
         Ret(Err("invalid token found"), tk.buf)
    [] OTHER ->
         stage1(tk.buf, varStart, Append(res, varPendingToken(tk.tok)))

\* parse once the token list is read
parseStage2(s1) ==
  IF s1.out.st # "ok" THEN s1
  ELSE IF Len(s1.out.v) = 0 THEN Ret(Ok(varNull), s1.buf)
  ELSE Ret(stage2(s1.out.v), s1.buf)

parse(buf, varStart) == parseStage2(stage1(buf, varStart, <<>>))

\* parseString once the variable after {{ is parsed
RECURSIVE parseStringVar(_, _, _, _)
parseStringVar(sub, cut, mode, flushed) ==
  IF sub.out.st # "ok" THEN sub
  ELSE parseStringLoop(sub.buf, cut, mode, <<>>,
         Append(flushed, IF mode = "json" THEN varJsonMarshal(sub.out.v)
                         ELSE sub.out.v))

parseStringLoop(buf, cut, mode, str, res) ==
  LET c == cur(buf)
      b1 == forward(buf)
      nc == cur(b1)
      flushed == IF Len(str) > 0 THEN Append(res, staticVar(StrV(str)))
                 ELSE res
  IN
    IF c = cut THEN
      Ret(Ok(IF Len(flushed) = 1 THEN flushed[1] ELSE varConcat(flushed)), b1)
    ELSE IF c = EOF THEN Ret(Err(ErrUnexpectedEOF), b1)
    ELSE IF c = "\\" THEN
      IF nc = cut /\ cut # EOF
        THEN parseStringLoop(forward(b1), cut, mode, Append(str, nc), res)
      ELSE IF cut = "\"" /\ nc \in DOMAIN escapedChars
        THEN parseStringLoop(forward(b1), cut, mode,
                             Append(str, escapedChars[nc]), res)
      ELSE IF nc = "\\"
        THEN parseStringLoop(forward(b1), cut, mode, Append(str, nc), res)
      ELSE parseStringLoop(b1, cut, mode, Append(str, c), res)
    ELSE IF c = "{" /\ nc = "{" THEN
      parseStringVar(parse(forward(b1), TRUE), cut, mode, flushed)
    ELSE parseStringLoop(b1, cut, mode, Append(str, c), res)

parseString(buf, cut, mode) == parseStringLoop(buf, cut, mode, <<>>, <<>>)

ParseString(s, mode) == parseString(s, EOF, mode).out

ParseVariable(s) == parse(s, FALSE).out

\* Replace answering a template that does not parse with the empty string
ReplaceResolveLenient(obj, ctx) ==
  IF obj.st # "ok" THEN Ok(<<>>)
  ELSE IF Resolve(obj.v, ctx).st # "ok" THEN Resolve(obj.v, ctx)
  ELSE Ok(AsString(Resolve(obj.v, ctx).v))

\* Replace once the template is resolved, and once it is parsed
ReplaceString(res) == IF res.st # "ok" THEN res ELSE Ok(AsString(res.v))

ReplaceResolve(obj, ctx) ==
  IF obj.st # "ok" THEN obj ELSE ReplaceString(Resolve(obj.v, ctx))

Replace(ctx, s, mode) == ReplaceResolve(ParseString(s, mode), ctx)

(***************************************************************************)
(* The contexts and the texts the operations are applied to                *)
(***************************************************************************)
\* the names and strings of the test context
NameVar == <<"v", "a", "r">>

NameVar2 == <<"v", "a", "r", "2">>

NameFoo == <<"f", "o", "o">>

NameNum == <<"n", "u", "m">>

NameBig == <<"b", "i", "g">>

TextWorld == <<"w", "o", "r", "l", "d">>

TextBar == <<"b", "a", "r">>

TextBaz == <<"b", "a", "z">>

\* the context of TestParser: var = "world", var2 = {"foo": "bar", "num": 40}
CtxTest ==
  (NameVar :> StrV(TextWorld))
    @@ (NameVar2 :> MapAny((NameFoo :> StrV(TextBar)) @@ (NameNum :> IntV(40))))

\* a second context: other kinds under the same names, and foo bound
CtxOther ==
  (NameVar :> BoolV(TRUE))
    @@ (NameVar2 :> MapString(NameFoo :> TextBaz))
    @@ (NameFoo :> MapAny(NameVar :> IntV(7)))
    @@ (NameBig :> UintV(5))

Contexts == {CtxTest, CtxOther}

Modes == {"text", "json"}

\* the vectors of TestParser: the template and the text Replace must give
TestVectors ==
  <<[in |-> <<"h", "e", "l", "l", "o", " ", "{", "{", "v", "a", "r", "}", "}">>,
     out |-> <<"h", "e", "l", "l", "o", " ", "w", "o", "r", "l", "d">>],
    [in |-> <<"h", "e", "l", "l", "o", " ", "{", "{", " ", " ", "v", "a", "r",
           " ", " ", " ", "CR", "LF", "}", "}">>,
     out |-> <<"h", "e", "l", "l", "o", " ", "w", "o", "r", "l", "d">>],
    [in |-> <<"h", "e", "l", "l", "o", " ", "{", "{", "'", "w", "o", "r", "l",
           "d", "'", "}", "}">>,
     out |-> <<"h", "e", "l", "l", "o", " ", "w", "o", "r", "l", "d">>],
    [in |-> <<"h", "e", "l", "l", "o", " ", "{", "{", "BQ", "w", "o", "r", "l",
           "d", " ", "2", "\\", "t", "BQ", "}", "}">>,
     out |-> <<"h", "e", "l", "l", "o", " ", "w", "o", "r", "l", "d", " ", "2",
            "\\", "t">>],
    [in |-> <<"h", "e", "l", "l", "o", " ", "{", "{", "\"", "w", "o", "r", "l",
           "d", " ", "\\", "t", "\"", "}", "}">>,
     out |-> <<"h", "e", "l", "l", "o", " ", "w", "o", "r", "l", "d", " ",
            "TAB">>],
    [in |-> <<"h", "e", "l", "l", "o", " ", "{", "{", "v", "a", "r", "2", ".",
           "f", "o", "o", "}", "}">>,
     out |-> <<"h", "e", "l", "l", "o", " ", "b", "a", "r">>],
    [in |-> <<"h", "e", "l", "l", "o", " ", "{", "{", " ", " ", "v", "a", "r",
           "2", " ", " ", ".", " ", " ", " ", "f", "o", "o", " ", " ", " ",
           "}", "}">>,
     out |-> <<"h", "e", "l", "l", "o", " ", "b", "a", "r">>],
    [in |-> <<"h", "e", "l", "l", "o", " ", "{", "{", "v", "a", "r", "2", ".",
           "n", "u", "m", " ", "+", " ", "2", "}", "}">>,
     out |-> <<"h", "e", "l", "l", "o", " ", "4", "2">>],
    [in |-> <<"h", "e", "l", "l", "o", " ", "{", "{", "v", "a", "r", "2", ".",
           "f", "o", "o", " ", "=", "=", " ", "'", "b", "a", "r", "'", "}",
           "}">>,
     out |-> <<"h", "e", "l", "l", "o", " ", "1">>],
    [in |-> <<"h", "e", "l", "l", "o", " ", "{", "{", "v", "a", "r", "2", ".",
           "f", "o", "o", " ", "=", "=", " ", "0", "}", "}">>,
     out |-> <<"h", "e", "l", "l", "o", " ", "0">>],
    [in |-> <<"h", "e", "l", "l", "o", " ", "{", "{", "v", "a", "r", "2", ".",
           "n", "u", "m", " ", "=", "=", " ", "'", "4", "0", ".", "0", "'",
           "}", "}">>,
     out |-> <<"h", "e", "l", "l", "o", " ", "1">>],
    [in |-> <<"h", "e", "l", "l", "o", " ", "{", "{", "v", "a", "r", "2", ".",
           "n", "u", "m", " ", "!", "=", " ", "'", "4", "0", ".", "1", "'",
           "}", "}">>,
     out |-> <<"h", "e", "l", "l", "o", " ", "0">>],
    [in |-> <<"{", "{", "2", " ", "+", " ", "3", " ", "*", " ", "4", "}", "}">>,
     out |-> <<"1", "4">>],
    [in |-> <<"{", "{", "1", "0", " ", "-", " ", "2", " ", "*", " ", "3", "}",
           "}">>,
     out |-> <<"4">>],
    [in |-> <<"{", "{", "2", " ", "*", " ", "3", " ", "+", " ", "4", " ", "*",
           " ", "5", "}", "}">>,
     out |-> <<"2", "6">>],
    [in |-> <<"{", "{", "5", " ", ">", " ", "3", "}", "}">>,
     out |-> <<"1">>],
    [in |-> <<"{", "{", "5", " ", "<", " ", "3", "}", "}">>,
     out |-> <<"0">>],
    [in |-> <<"{", "{", "5", " ", ">", "=", " ", "5", "}", "}">>,
     out |-> <<"1">>],
    [in |-> <<"{", "{", "5", " ", "<", "=", " ", "4", "}", "}">>,
     out |-> <<"0">>],
    [in |-> <<"{", "{", "1", "0", " ", "%", " ", "3", "}", "}">>,
     out |-> <<"1">>],
    [in |-> <<"{", "{", "1", "5", " ", "%", " ", "4", "}", "}">>,
     out |-> <<"3">>],
    [in |-> <<"{", "{", "1", " ", "<", "<", " ", "4", "}", "}">>,
     out |-> <<"1", "6">>],
    [in |-> <<"{", "{", "1", "6", " ", ">", ">", " ", "2", "}", "}">>,
     out |-> <<"4">>],
    [in |-> <<"{", "{", "1", " ", "|", "|", " ", "0", " ", "&", "&", " ", "0",
           "}", "}">>,
     out |-> <<"1">>],
    [in |-> <<"{", "{", "0", " ", "|", "|", " ", "1", " ", "&", "&", " ", "1",
           "}", "}">>,
     out |-> <<"1">>],
    [in |-> <<"{", "{", "5", " ", "|", " ", "3", "}", "}">>,
     out |-> <<"7">>],
    [in |-> <<"{", "{", "5", " ", "&", " ", "3", "}", "}">>,
     out |-> <<"1">>],
    [in |-> <<"{", "{", "5", " ", "^", " ", "3", "}", "}">>,
     out |-> <<"6">>],
    [in |-> <<"h", "e", "l", "l", "o", " ", "{", "{", "v", "a", "r", "|", "u",
           "p", "p", "e", "r", "}", "}">>,
     out |-> <<"h", "e", "l", "l", "o", " ", "W", "O", "R", "L", "D">>],
    [in |-> <<"h", "e", "l", "l", "o", " ", "{", "{", "v", "a", "r", "|", "u",
           "p", "p", "e", "r", "|", "l", "o", "w", "e", "r", "}", "}">>,
     out |-> <<"h", "e", "l", "l", "o", " ", "w", "o", "r", "l", "d">>],
    [in |-> <<"h", "e", "l", "l", "o", " ", "{", "{", "v", "a", "r", "2", ".",
           "f", "o", "o", "|", "u", "p", "p", "e", "r", "}", "}">>,
     out |-> <<"h", "e", "l", "l", "o", " ", "B", "A", "R">>],
    [in |-> <<"{", "{", "v", "a", "r", "2", "|", "j", "s", "o", "n", "}", "}">>,
     out |-> <<"{", "\"", "f", "o", "o", "\"", ":", "\"", "b", "a", "r", "\"",
            ",", "\"", "n", "u", "m", "\"", ":", "4", "0", "}">>]>>

(***************************************************************************)
(* The inputs.  A chain is operands joined by binary operators; a free     *)
(* input is any short sequence of lexemes; a raw input is any short        *)
(* character string, taken as a whole template (quote = EOF) or as the     *)
(* body of a quoted literal; a vector is a template of TestParser; a ws    *)
(* input is a lexeme sequence with a run of white space put in; a cmp      *)
(* input is an equality or inequality of two operands; a multi input is a  *)
(* template of several placeholders.                                       *)
(***************************************************************************)
MaxOps == 3

MaxTokens == 3

MaxStrLen == 3

ChainOperands == {<<"2">>, <<"1", "0">>}

ChainOps == {"*", "+", "-", "||"}

FreeLexemes ==
  {<<"2">>, <<"'", "a", "'">>, NameVar, NameVar2, NameFoo, <<".">>, <<"+">>,
   <<"!">>, <<"~">>, <<"|">>}

RawAlphabet == {"t", "n", "r", "v", "\\", "{", "}", "'", "\""}

\* the characters of a binary operator's symbol
OpText(op) ==
  CASE op = "&&" -> <<"&", "&">>
    [] op = "||" -> <<"|", "|">>
    [] op = "==" -> <<"=", "=">>
    [] op = "!=" -> <<"!", "=">>
    [] op = "<=" -> <<"<", "=">>
    [] op = ">=" -> <<">", "=">>
    [] op = "<<" -> <<"<", "<">>
    [] op = ">>" -> <<">", ">">>
    [] OTHER -> <<op>>

SeqsUpTo(S, n) == UNION {[1..k -> S] : k \in 0..n}

ChainInputs ==
  UNION {{[fam |-> "chain", opnds |-> o, ops |-> p] :
            o \in [1..(n + 1) -> ChainOperands], p \in [1..n -> ChainOps]} :
         n \in 0..MaxOps}

FreeInputs == {[fam |-> "free", lex |-> l] : l \in SeqsUpTo(FreeLexemes, MaxTokens)}

RawInputs ==
  {[fam |-> "raw", quote |-> q, body |-> b] :
     q \in Quotes \cup {EOF}, b \in SeqsUpTo(RawAlphabet, MaxStrLen)}

VectorInputs == {[fam |-> "vector", id |-> i] : i \in 1..Len(TestVectors)}

RECURSIVE ChainText(_, _)
ChainText(opnds, ops) ==
  IF ops = <<>> THEN opnds[1]
  ELSE opnds[1] \o <<" ">> \o OpText(ops[1]) \o <<" ">>
         \o ChainText(Tail(opnds), Tail(ops))

RECURSIVE Spaced(_)
Spaced(lex) ==
  IF lex = <<>> THEN <<>>
  ELSE IF Len(lex) = 1 THEN lex[1]
  ELSE lex[1] \o <<" ">> \o Spaced(Tail(lex))

\* lexemes with a run of white space put after lexeme number at (before the
\* first one for 0, at every place for -1)
WsLexemes == {NameVar2, NameFoo, <<".">>, <<"+">>}

WsRuns == {<<" ">>, <<"TAB">>, <<"CR", "LF">>, <<"LF", " ", "TAB">>}

WsInputs ==
  {[fam |-> "ws", lex |-> l, at |-> a, run |-> r] :
     l \in SeqsUpTo(WsLexemes, MaxTokens), a \in (-1)..MaxTokens, r \in WsRuns}

\* a placeholder that is never closed: lexemes, then a run of white space
\* (or none), then the end of the input
OpenInputs ==
  {[fam |-> "open", lex |-> l, run |-> r] :
     l \in SeqsUpTo(WsLexemes, MaxTokens), r \in WsRuns \cup {<<>>}}

\* two lexemes written with nothing between them are read as two tokens
Separate(l1, l2) == readToken(l1 \o l2).buf = l2

\* the text of lexemes k.. with the run at place at; nothing or one space
\* stands between two lexemes otherwise
RECURSIVE WsText(_, _, _, _)
WsText(lex, at, run, k) ==
  (IF k > 1 /\ k <= Len(lex) /\ ~Separate(lex[k - 1], lex[k])
     THEN <<" ">> ELSE <<>>)
    \o (IF at = k - 1 \/ at = -1 THEN run ELSE <<>>)
    \o (IF k > Len(lex) THEN <<>> ELSE lex[k] \o WsText(lex, at, run, k + 1))

\* an equality or an inequality of two operands of any kinds
CmpOperands ==
  {<<"4", "0">>, <<"4", "0", ".", "0">>, <<"'", "4", "0", ".", "0", "'">>,
   <<"'", "a", "'">>, NameVar, NameNum}

CmpOps == {"==", "!="}

\* a relational or a shift operator between two operands: integers, a
\* decimal, a string that reads as a number and one that does not, a name
\* bound to a uint64 in one context and unbound in the other
NumOperands ==
  {<<"1">>, <<"2">>, <<"4">>, <<"1", "6">>, <<"2", ".", "5">>,
   <<"'", "1", "0", "'">>, <<"'", "a", "'">>, NameBig}

RelOps == {"<", "<=", ">", ">="}

ShiftOps == {"<<", ">>"}

NumInputs ==
  {[fam |-> "num", a |-> a, op |-> op, b |-> b] :
     a \in NumOperands, op \in RelOps \cup ShiftOps, b \in NumOperands}

\* a text given to the tokenizer: any short string of operator characters,
\* digits, a letter, a dot and a space, and the text 1.2.3
TokAlphabet == {"=", "!", "|", "&", "<", ">", "}", ".", "1", "a", " "}

TokInputs ==
  {[fam |-> "tok", body |-> b] : b \in SeqsUpTo(TokAlphabet, MaxStrLen)}
    \cup {[fam |-> "tok", body |-> <<"1", ".", "2", ".", "3">>]}

\* a conjunction or a disjunction of two operands: a number, or a string
\* literal holding a placeholder whose member access fails
LogicOperands ==
  {<<"0">>, <<"1">>,
   <<"'", "{", "{">> \o NameFoo \o <<".">> \o NameVar \o <<"}", "}", "'">>,
   <<"'", "{", "{">> \o NameVar \o <<".">> \o NameFoo \o <<"}", "}", "'">>}

LogicOps == {"&&", "||"}

LogicInputs ==
  {[fam |-> "logic", a |-> a, op |-> op, b |-> b] :
     a \in LogicOperands, op \in LogicOps, b \in LogicOperands}

CmpInputs ==
  {[fam |-> "cmp", a |-> a, op |-> op, b |-> b] :
     a \in CmpOperands, op \in CmpOps, b \in CmpOperands}

\* a template of several placeholders, each after a dash; the last one may
\* lack its }}
MaxParts == 3

PartExprs ==
  {NameVar, NameVar2 \o <<".">> \o NameFoo, NameFoo \o <<".">> \o NameVar,
   NameVar \o <<".">> \o NameFoo}

MultiInputs ==
  {[fam |-> "multi", parts |-> p, closed |-> c] :
     p \in SeqsUpTo(PartExprs, MaxParts), c \in BOOLEAN}

RECURSIVE MultiText(_, _)
MultiText(parts, closed) ==
  IF parts = <<>> THEN <<>>
  ELSE <<"-", "{", "{">> \o parts[1]
         \o (IF Len(parts) = 1 /\ ~closed THEN <<>> ELSE <<"}", "}">>)
         \o MultiText(Tail(parts), closed)

\* the templates several threads resolve at once: two placeholders, of which
\* foo.var fails against one context and not against the other
ConcParts == {NameVar, NameFoo \o <<".">> \o NameVar}

ConcInputs ==
  {[fam |-> "multi", parts |-> p, closed |-> TRUE] : p \in [1..2 -> ConcParts]}

\* expressions with a unary operator: before a member access, alone,
\* as the left operand and as the right operand of a binary operator
UnaryExprs ==
  << <<"!">> \o NameVar2 \o <<".">> \o NameFoo,
     <<"~">> \o NameNum,
     <<"!">> \o NameVar \o <<" ", "+", " ">> \o NameNum,
     NameVar \o <<" ", "&", "&", " ", "!">> \o NameNum >>

UnaryInputs == {[fam |-> "unary", id |-> i] : i \in 1..Len(UnaryExprs)}

HasExpression(x) ==
  \/ x.fam \in {"chain", "free", "ws", "cmp", "logic", "num", "unary"}
  \/ x.fam = "raw" /\ x.quote # EOF
  \/ x.fam = "multi" /\ Len(x.parts) = 1

\* what would stand between {{ and }}
Expression(x) ==
  CASE x.fam = "chain" -> ChainText(x.opnds, x.ops)
    [] x.fam = "free" -> Spaced(x.lex)
    [] x.fam = "ws" -> WsText(x.lex, x.at, x.run, 1)
    [] x.fam \in {"cmp", "logic", "num"} ->
         x.a \o <<" ">> \o OpText(x.op) \o <<" ">> \o x.b
    [] x.fam = "multi" -> x.parts[1]
    [] x.fam = "unary" -> UnaryExprs[x.id]
    [] x.fam = "raw" -> <<x.quote>> \o x.body \o <<x.quote>>

Template(x) ==
  CASE x.fam = "vector" -> TestVectors[x.id].in
    [] x.fam = "raw" /\ x.quote = EOF -> x.body
    [] x.fam = "tok" -> x.body
    [] x.fam = "multi" -> MultiText(x.parts, x.closed)
    [] x.fam = "open" ->
         <<"{", "{">> \o WsText(x.lex, Len(x.lex), x.run, 1)
    [] OTHER -> <<"{", "{">> \o Expression(x) \o <<"}", "}">>

\* the threads that may resolve one parsed template at the same time
NThreads == 2

Threads == 1..NThreads

\* a thread outside Resolve
Idle == [pc |-> "idle"]

\* the registry as init leaves it
Builtins ==
  [n \in {"json", "html", "url", "upper", "lower"} |->
     CASE n = "json" -> "filterJSON"
       [] n = "html" -> "filterHTML"
       [] n = "url" -> "filterURL"
       [] n = "upper" -> "filterUpper"
       [] n = "lower" -> "filterLower"]

\* the registrations a caller makes: a built-in name and two new ones, a
\* built-in function and two new ones; at most MaxRegs of them
MaxRegs == 2

RegNames == {"upper", "mine", "other"}

RegFuncs == {"filterLower", "fnA", "fnB"}

LookupNames == DOMAIN Builtins \cup {"mine", "other", "never"}

(***************************************************************************)
(* The state: the input the caller holds, the last call's arguments and    *)
(* what it returned (prev: what the Resolve before the last returned); the *)
(* threads resolving the parsed template; the filter registry, the         *)
(* registrations made since startup and the last lookup's answer.          *)
(***************************************************************************)
VARIABLES src, api, s, mode, ctx, phase, parsed, out, prev, thr,
          filters, regs, found

vars ==
  <<src, api, s, mode, ctx, phase, parsed, out, prev, thr, filters, regs,
    found>>

None == [st |-> "none"]

Start(inputs) ==
  /\ src \in inputs
  /\ api = "none"
  /\ s = <<>>
  /\ mode = "text"
  /\ ctx = CtxTest
  /\ phase = "start"
  /\ parsed = None
  /\ out = None
  /\ prev = None
  /\ thr = [t \in Threads |-> Idle]
  /\ filters = Builtins
  /\ regs = <<>>
  /\ found = None

Init == Start(VectorInputs \cup FreeInputs \cup UnaryInputs)

InitChain == Start(ChainInputs)

InitRaw == Start(RawInputs)

InitConc == Start(ConcInputs)

InitTok == Start(TokInputs)

InitNum == Start(NumInputs)

InitFilters == Start({[fam |-> "free", lex |-> <<>>]})

InitCmp == Start(CmpInputs \cup LogicInputs)

InitMulti == Start({x \in MultiInputs : x.parts = <<>> => x.closed})

InitWs == Start({x \in WsInputs : x.at <= Len(x.lex)} \cup OpenInputs)

DoParseString(m) ==
  /\ phase = "start"
  /\ api' = "ParseString"
  /\ s' = Template(src)
  /\ mode' = m
  /\ parsed' = ParseString(Template(src), m)
  /\ phase' = "parsed"
  /\ UNCHANGED <<src, ctx, out, prev, thr, filters, regs, found>>

DoParseVariable ==
  /\ phase = "start"
  /\ HasExpression(src)
  /\ api' = "ParseVariable"
  /\ s' = Expression(src)
  /\ parsed' = ParseVariable(Expression(src))
  /\ phase' = "parsed"
  /\ UNCHANGED <<src, mode, ctx, out, prev, thr, filters, regs, found>>

\* a Resolve that keeps the value it computed in the tree
DoResolveMemo(c) ==
  /\ phase \in {"parsed", "resolved"}
  /\ parsed.st = "ok"
  /\ ctx' = c
  /\ out' = Resolve(parsed.v, c)
  /\ prev' = out
  /\ parsed' = IF out'.st = "ok" THEN Ok(staticVar(out'.v)) ELSE parsed
  /\ phase' = "resolved"
  /\ UNCHANGED <<src, api, s, mode, thr, filters, regs, found>>

DoResolve(c) ==
  /\ phase \in {"parsed", "resolved"}
  /\ parsed.st = "ok"
  /\ ctx' = c
  /\ out' = Resolve(parsed.v, c)
  /\ prev' = out
  /\ phase' = "resolved"
  /\ UNCHANGED <<src, api, s, mode, parsed, thr, filters, regs, found>>

DoReplace(c, m) ==
  /\ phase = "start"
  /\ api' = "Replace"
  /\ s' = Template(src)
  /\ mode' = m
  /\ ctx' = c
  /\ out' = Replace(c, Template(src), m)
  /\ phase' = "replaced"
  /\ UNCHANGED <<src, parsed, prev, thr, filters, regs, found>>

\* the parts varConcat.Resolve ranges over (a tree that is no varConcat is
\* resolved in one step)
Subs(node) == IF node.t = "varConcat" THEN node.subs ELSE <<node>>

\* a thread in Resolve, about to resolve part i with buffer res, and a thread
\* that has returned ret
Running(c, i, res) == [pc |-> "run", ctx |-> c, i |-> i, res |-> res]

Returned(c, ret) == [pc |-> "done", ctx |-> c, ret |-> ret]

\* thread t calls Resolve on the parsed template with context c
ThreadCall(t, c) ==
  /\ phase = "parsed"
  /\ parsed.st = "ok"
  /\ thr[t].pc = "idle"
  /\ thr' = [thr EXCEPT ![t] = Running(c, 1, <<>>)]
  /\ UNCHANGED <<src, api, s, mode, ctx, phase, parsed, out, prev, filters,
                 regs, found>>

\* one turn of the loop with the part already resolved to v
ThreadTurn(me, v) ==
  IF v.st # "ok" THEN Returned(me.ctx, v)
  ELSE Running(me.ctx, me.i + 1, me.res \o AsString(v.v))

\* ThreadStep writing to one buffer that all the threads share
ThreadStepShared(t) ==
  /\ thr[t].pc = "run"
  /\ thr' = [u \in Threads |->
       IF parsed.v.t # "varConcat" THEN
         IF u = t THEN Returned(thr[t].ctx, Resolve(parsed.v, thr[t].ctx))
         ELSE thr[u]
       ELSE IF thr[t].i > Len(parsed.v.subs) THEN
         IF u = t THEN Returned(thr[t].ctx, Ok(StrV(thr[t].res))) ELSE thr[u]
       ELSE IF Resolve(parsed.v.subs[thr[t].i], thr[t].ctx).st # "ok" THEN
         IF u = t
           THEN Returned(thr[t].ctx,
                         Resolve(parsed.v.subs[thr[t].i], thr[t].ctx))
           ELSE thr[u]
       ELSE IF thr[u].pc # "run" THEN thr[u]
       ELSE Running(thr[u].ctx, thr[u].i + (IF u = t THEN 1 ELSE 0),
                    thr[u].res \o AsString(
                      Resolve(parsed.v.subs[thr[t].i], thr[t].ctx).v))]
  /\ UNCHANGED <<src, api, s, mode, ctx, phase, parsed, out, prev, filters,
                 regs, found>>

\* thread t runs one turn of the loop of varConcat.Resolve, or returns
ThreadStep(t) ==
  /\ thr[t].pc = "run"
  /\ thr' = [thr EXCEPT ![t] =
       IF parsed.v.t # "varConcat"
         THEN Returned(thr[t].ctx, Resolve(parsed.v, thr[t].ctx))
       ELSE IF thr[t].i > Len(parsed.v.subs)
         THEN Returned(thr[t].ctx, Ok(StrV(thr[t].res)))
       ELSE ThreadTurn(thr[t], Resolve(parsed.v.subs[thr[t].i], thr[t].ctx))]
  /\ UNCHANGED <<src, api, s, mode, ctx, phase, parsed, out, prev, filters,
                 regs, found>>

Next ==
  \/ \E m \in Modes : DoParseString(m)
  \/ DoParseVariable
  \/ \E c \in Contexts : DoResolve(c)
  \/ \E c \in Contexts, m \in Modes : DoReplace(c, m)

\* the buffer the tokenizer stands at: the whole text, then what the last
\* token left
TokBuffer == IF phase = "start" THEN Template(src) ELSE out.buf

\* one readToken, as stage 1 of parse calls it: while the buffer is not
\* empty and no invalid token was met
DoReadToken ==
  /\ phase \in {"start", "token"}
  /\ phase = "token" => out.tok # "TokenInvalid"
  /\ ~empty(TokBuffer)
  /\ api' = "readToken"
  /\ s' = TokBuffer
  /\ out' = readToken(TokBuffer)
  /\ phase' = "token"
  /\ UNCHANGED <<src, mode, ctx, parsed, prev, thr, filters, regs, found>>

NextTok == DoReadToken

\* RegisterFilter keeping the function a name already has
RegisterFilterOnce(name, fn) ==
  /\ Len(regs) < MaxRegs
  /\ filters' = IF name \in DOMAIN filters THEN filters
                ELSE (name :> fn) @@ filters
  /\ regs' = Append(regs, [name |-> name, fn |-> fn])
  /\ UNCHANGED <<src, api, s, mode, ctx, phase, parsed, out, prev, thr, found>>

RegisterFilter(name, fn) ==
  /\ Len(regs) < MaxRegs
  /\ filters' = (name :> fn) @@ filters
  /\ regs' = Append(regs, [name |-> name, fn |-> fn])
  /\ UNCHANGED <<src, api, s, mode, ctx, phase, parsed, out, prev, thr, found>>

\* found: the name asked, the function returned (nil for none) and how many
\* registrations had been made
LookupFilter(name) ==
  /\ found' = [st |-> "ok", name |-> name,
               fn |-> IF name \in DOMAIN filters THEN filters[name] ELSE "nil",
               at |-> Len(regs)]
  /\ UNCHANGED <<src, api, s, mode, ctx, phase, parsed, out, prev, thr,
                 filters, regs>>

\* the registry: registrations and lookups in any order
NextFilters ==
  \/ \E name \in RegNames, fn \in RegFuncs : RegisterFilter(name, fn)
  \/ \E name \in LookupNames : LookupFilter(name)

\* a template parsed once and resolved by several threads at the same time
NextConc ==
  \/ \E m \in Modes : DoParseString(m)
  \/ \E t \in Threads, c \in Contexts : ThreadCall(t, c)
  \/ \E t \in Threads : ThreadStep(t)

Spec == Init /\ [][Next]_vars

SpecConc == InitConc /\ [][NextConc]_vars

SpecFilters == InitFilters /\ [][NextFilters]_vars

SpecChain == InitChain /\ [][Next]_vars

SpecRaw == InitRaw /\ [][Next]_vars

SpecCmp == InitCmp /\ [][Next]_vars

SpecTok == InitTok /\ [][NextTok]_vars

SpecNum == InitNum /\ [][Next]_vars

SpecMulti == InitMulti /\ [][Next]_vars

SpecWs == InitWs /\ [][Next]_vars

(***************************************************************************)
(* What the claims speak of                                                *)
(***************************************************************************)
BinaryTokens ==
  {"TokenAdd", "TokenSubtract", "TokenMultiply", "TokenDivide", "TokenModulo",
   "TokenOr", "TokenAnd", "TokenXor", "TokenLogicOr", "TokenLogicAnd",
   "TokenEqual", "TokenDifferent", "TokenLess", "TokenLessEqual",
   "TokenGreater", "TokenGreaterEqual", "TokenShiftLeft", "TokenShiftRight"}

\* the precedence rank of a binary operator's symbol (a lower rank binds tighter)
Rank(op) == operatorPrecedence(CHOOSE tk \in BinaryTokens : MathOp(tk) = op)

SameRank(ops) == \A i, j \in 1..Len(ops) : Rank(ops[i]) = Rank(ops[j])

OperandValue(x) == IF x = <<"2">> THEN 2 ELSE 10

Operand(x) == [t |-> "staticVar", v |-> [k |-> "int", n |-> OperandValue(x)]]

BinaryOperation(a, op, b) == [t |-> "varMath", a |-> a, b |-> b, op |-> op]

\* the expression of a template that is one placeholder: json mode wraps it
ParsedExpr == IF parsed.v.t = "varJsonMarshal" THEN parsed.v.obj ELSE parsed.v

RECURSIVE LeftNest(_, _)
LeftNest(opnds, ops) ==
  IF ops = <<>> THEN Operand(opnds[1])
  ELSE BinaryOperation(LeftNest(SubSeq(opnds, 1, Len(ops)),
                                SubSeq(ops, 1, Len(ops) - 1)),
                       ops[Len(ops)], Operand(opnds[Len(ops) + 1]))

\* the value of a chain of + and - taken from the left
RECURSIVE LeftSum(_, _)
LeftSum(opnds, ops) ==
  IF ops = <<>> THEN OperandValue(opnds[1])
  ELSE IF ops[Len(ops)] = "+"
    THEN LeftSum(SubSeq(opnds, 1, Len(ops)), SubSeq(ops, 1, Len(ops) - 1))
           + OperandValue(opnds[Len(ops) + 1])
    ELSE LeftSum(SubSeq(opnds, 1, Len(ops)), SubSeq(ops, 1, Len(ops) - 1))
           - OperandValue(opnds[Len(ops) + 1])

\* C1: binary operators nest by precedence rank: when op2 binds tighter than
\* op1, `a op1 b op2 c` parses to BinaryOperation(a, op1,
\* BinaryOperation(b, op2, c)).  The parser groups by text order instead.
C1_PrecedenceNesting ==
  (/\ src.fam = "chain"
   /\ Len(src.ops) = 2
   /\ Rank(src.ops[2]) < Rank(src.ops[1])
   /\ phase = "parsed")
  => /\ parsed.st = "ok"
     /\ ParsedExpr =
          BinaryOperation(Operand(src.opnds[1]), src.ops[1],
                          BinaryOperation(Operand(src.opnds[2]), src.ops[2],
                                          Operand(src.opnds[3])))

\* C2: binary operators of equal precedence rank associate to the left, for
\* every chain length: the chain parses to the left-nested tree, and a chain
\* of + and - is replaced by its value taken from the left.
C2_LeftAssociative ==
  /\ (src.fam = "chain" /\ SameRank(src.ops) /\ phase \in {"parsed", "resolved"})
       => (parsed.st = "ok" /\ ParsedExpr = LeftNest(src.opnds, src.ops))
  /\ (/\ src.fam = "chain"
      /\ \A i \in 1..Len(src.ops) : src.ops[i] \in {"+", "-"}
      /\ phase = "replaced"
      /\ mode = "text")
       => out = Ok(IntToDec(LeftSum(src.opnds, src.ops)))

\* 10 - 2 - 2 is 6 (from the right it would be 10)
C2_Witness ==
  /\ src.fam = "chain"
  /\ src.opnds = <<<<"1", "0">>, <<"2">>, <<"2">>>>
  /\ src.ops = <<"-", "-">>
  /\ phase = "replaced"
  /\ mode = "text"
  /\ out = Ok(<<"6">>)

HasPlaceholderStart(body) ==
  \E i \in 1..(Len(body) - 1) : body[i] = "{" /\ body[i + 1] = "{"

\* C3: round trip: a template with no placeholder start parses, and resolving
\* it against any context yields the template itself.  Two backslashes in a
\* row come back as one.
C3_RoundTrip ==
  (src.fam = "raw" /\ src.quote = EOF /\ ~HasPlaceholderStart(src.body))
  => /\ phase = "parsed" => parsed.st = "ok"
     /\ phase = "resolved" => out = Ok(StrV(src.body))
     /\ phase = "replaced" => out = Ok(src.body)

\* a literal's body holds neither its own delimiter nor a placeholder start
PlainBody(x) ==
  /\ x.fam = "raw"
  /\ x.quote # EOF
  /\ \A i \in 1..Len(x.body) : x.body[i] # x.quote
  /\ ~HasPlaceholderStart(x.body)

\* every backslash of the body, read left to right, is followed by one of
\* the allowed characters
RECURSIVE EscapePairs(_, _)
EscapePairs(body, allowed) ==
  IF body = <<>> THEN TRUE
  ELSE IF body[1] = "\\"
    THEN /\ Len(body) >= 2
         /\ body[2] \in allowed
         /\ EscapePairs(SubSeq(body, 3, Len(body)), allowed)
    ELSE EscapePairs(Tail(body), allowed)

ControlChar(c) ==
  CASE c = "r" -> "CR" [] c = "n" -> "LF" [] c = "t" -> "TAB"
    [] c = "v" -> "VT" [] c = "\\" -> "\\"

RECURSIVE DecodeEscapes(_)
DecodeEscapes(body) ==
  IF body = <<>> THEN <<>>
  ELSE IF body[1] = "\\"
    THEN <<ControlChar(body[2])>> \o DecodeEscapes(SubSeq(body, 3, Len(body)))
    ELSE <<body[1]>> \o DecodeEscapes(Tail(body))

\* the literal of the placeholder was resolved to a value (not to its JSON)
LiteralResolved == phase = "resolved" /\ (api = "ParseVariable" \/ mode = "text")

\* C8: escape decoding depends on the delimiter: in a double-quoted literal
\* a backslash followed by r, n, t, v or a backslash gives the one control
\* character it names; in a single-quoted or backtick literal a backslash
\* followed by r, n, t or v stays as the two characters.
C8_EscapeDecoding ==
  /\ (/\ PlainBody(src)
      /\ src.quote = "\""
      /\ EscapePairs(src.body, {"r", "n", "t", "v", "\\"})
      /\ LiteralResolved)
       => out = Ok(StrV(DecodeEscapes(src.body)))
  /\ (/\ PlainBody(src)
      /\ src.quote \in {"'", "BQ"}
      /\ EscapePairs(src.body, {"r", "n", "t", "v"})
      /\ LiteralResolved)
       => out = Ok(StrV(src.body))

C8_Witness ==
  /\ src = [fam |-> "raw", quote |-> "\"", body |-> <<"\\", "t", "t">>]
  /\ LiteralResolved
  /\ out = Ok(StrV(<<"TAB", "t">>))

\* C9: single-quoted and backtick literals do no escape processing at all:
\* a body without its delimiter and without a placeholder start is the
\* literal's value character for character.  A doubled backslash is halved,
\* and a closing backslash swallows the delimiter.
C9_NoEscapeProcessing ==
  (PlainBody(src) /\ src.quote \in {"'", "BQ"})
  => /\ phase = "parsed" => parsed.st = "ok"
     /\ LiteralResolved => out = Ok(StrV(src.body))

VariableLexemes == {NameVar, NameVar2, NameFoo}

\* the test vectors whose placeholders hold literals and operators only
LiteralVectors == {3, 4, 5} \cup (13..28)

LiteralOnly(x) ==
  \/ x.fam = "free" /\ \A i \in 1..Len(x.lex) : x.lex[i] \notin VariableLexemes
  \/ x.fam = "vector" /\ x.id \in LiteralVectors

\* C4: static-ness is sound: a template of literal text and of placeholders
\* built from literals parses to a static AST, and a static AST the parser
\* returned resolves to the same outcome in every context.
C4_StaticSound ==
  /\ (LiteralOnly(src) /\ phase \in {"parsed", "resolved"} /\ parsed.st = "ok")
       => IsStatic(parsed.v)
  /\ (phase = "resolved" /\ IsStatic(parsed.v))
       => \A c \in Contexts : Resolve(parsed.v, c) = out

C4_Witness ==
  /\ src = [fam |-> "vector", id |-> 3]
  /\ phase = "resolved"
  /\ ctx = CtxOther
  /\ IsStatic(parsed.v)
  /\ out = Ok(StrV(<<"h", "e", "l", "l", "o", " ", "w", "o", "r", "l", "d">>))

\* the base of a resolved member access, and what it resolves to
IsMemberAccess == phase = "resolved" /\ parsed.v.t = "varAccessOffset"

Base == Resolve(parsed.v.sub, ctx)

\* C5 as stated: on a mapping base of either kind, base.field is the stored
\* value when the key is present and null when it is absent, never an error.
C5_AbsentKeyNull ==
  (IsMemberAccess /\ Base.st = "ok")
  => /\ Base.v.k = "map[string]any" =>
          out = Ok(IF parsed.v.offset \in DOMAIN Base.v.m
                   THEN Base.v.m[parsed.v.offset] ELSE [k |-> "null"])
     /\ Base.v.k = "map[string]string" =>
          out = IF parsed.v.offset \in DOMAIN Base.v.ms
                THEN Ok([k |-> "str", s |-> Base.v.ms[parsed.v.offset]])
                ELSE Ok([k |-> "null"])

\* C5: on a mapping base, base.field is the stored value when the key is
\* present; when it is absent it is null for a map of any values and the
\* empty string for a map of strings; never an error.
C5_AbsentKeyZero ==
  (IsMemberAccess /\ Base.st = "ok")
  => /\ Base.v.k = "map[string]any" =>
          out = Ok(IF parsed.v.offset \in DOMAIN Base.v.m
                   THEN Base.v.m[parsed.v.offset] ELSE [k |-> "null"])
     /\ Base.v.k = "map[string]string" =>
          out = Ok([k |-> "str",
                    s |-> IF parsed.v.offset \in DOMAIN Base.v.ms
                          THEN Base.v.ms[parsed.v.offset] ELSE <<>>])

\* var2.var on a map of strings without the key var
C5_Witness ==
  /\ IsMemberAccess
  /\ ctx = CtxOther
  /\ parsed.v.sub = [t |-> "varFetchFromCtx", name |-> NameVar2]
  /\ parsed.v.offset = NameVar
  /\ out = Ok([k |-> "str", s |-> <<>>])

\* C6: member access on a base that is no mapping (a string, a number, a
\* boolean, null) is an evaluation error and yields no value.
C6_NonMappingError ==
  (/\ IsMemberAccess
   /\ Base.st = "ok"
   /\ Base.v.k \in {"str", "int", "float", "bool", "null"})
  => out.st = "err"

\* foo.var where the context does not know foo
C6_Witness ==
  /\ IsMemberAccess
  /\ ctx = CtxTest
  /\ parsed.v.sub = [t |-> "varFetchFromCtx", name |-> NameFoo]
  /\ Base = Ok([k |-> "null"])
  /\ out.st = "err"

\* C7: pipe filters are applied postfix and chain left to right: {{var|upper}}
\* is var in upper case, {{var|upper|lower}} is that in lower case.  The
\* parser reads | as the bitwise-or operator, with the filter's name as a
\* context lookup.
C7_PipeFilters ==
  (/\ src.fam = "vector"
   /\ src.id \in {29, 30}
   /\ phase = "replaced"
   /\ mode = "text")
  => out = Ok(<<"h", "e", "l", "l", "o", " ">> \o
              (IF src.id = 29
                 THEN filterUpper(Value(ctx, NameVar)).v.s
                 ELSE filterLower(filterUpper(Value(ctx, NameVar)).v).v.s))

\* C10: a lookup of a name the context does not know resolves to null with
\* no error, and a template that is only that placeholder is replaced
\* successfully (by nothing in text mode, by null in json mode).
C10_UnknownNameNull ==
  /\ (/\ phase = "resolved"
      /\ parsed.v.t = "varFetchFromCtx"
      /\ parsed.v.name \notin DOMAIN ctx)
       => out = Ok([k |-> "null"])
  /\ (/\ src.fam = "free"
      /\ Len(src.lex) = 1
      /\ src.lex[1] \in VariableLexemes
      /\ src.lex[1] \notin DOMAIN ctx
      /\ phase = "replaced")
       => out = Ok(IF mode = "json" THEN <<"n", "u", "l", "l">> ELSE <<>>)

C10_Witness ==
  /\ src = [fam |-> "free", lex |-> <<NameFoo>>]
  /\ ctx = CtxTest
  /\ phase = "replaced"
  /\ mode = "json"
  /\ out = Ok(<<"n", "u", "l", "l">>)


\* whether a pending-operator node occurs at any depth of a tree
RECURSIVE HasPending(_)
HasPending(node) ==
  CASE node.t = "varPendingToken" -> TRUE
    [] node.t = "varConcat" ->
         \E i \in 1..Len(node.subs) : HasPending(node.subs[i])
    [] node.t \in {"varNot", "varBitwiseNot", "varAccessOffset"} ->
         HasPending(node.sub)
    [] node.t = "varMath" -> HasPending(node.a) \/ HasPending(node.b)
    [] node.t = "varJsonMarshal" -> HasPending(node.obj)
    [] OTHER -> FALSE

\* C20: no pending-operator node survives parsing: a tree that ParseString
\* or ParseVariable returns without error holds no pending-operator node at
\* any depth, and no evaluation of it returns the pending-token error.
C20_NoPendingNode ==
  /\ (phase \in {"parsed", "resolved"} /\ parsed.st = "ok")
       => ~HasPending(parsed.v)
  /\ phase = "resolved"
       => out # Err("this value should never happen (pending token)")

\* the tree a fresh parse of the text last parsed gives
FreshParse == IF api = "ParseVariable" THEN ParseVariable(s) ELSE ParseString(s, mode)

\* C14: evaluation leaves the tree unchanged: after any sequence of Resolve
\* calls, against any contexts, failed or not, the tree is the one the parse
\* gave and the last Resolve returned what a first Resolve of a fresh tree
\* against that context returns.
C14_ResolveLeavesTree ==
  phase = "resolved"
    => /\ parsed = FreshParse
       /\ out = Resolve(FreshParse.v, ctx)

\* foo.var: an evaluation error against the test context, then 7 against the
\* other one
C14_Witness ==
  /\ phase = "resolved"
  /\ prev.st = "err"
  /\ ctx = CtxOther
  /\ out = Ok([k |-> "int", n |-> 7])

\* the placeholder of a ws input with no white space put in
Canonical(x) ==
  <<"{", "{">> \o WsText(x.lex, Len(x.lex) + 1, <<>>, 1) \o <<"}", "}">>

\* C11: white space inside a placeholder is insignificant: a run of space,
\* tab, CR or LF put between two adjacent tokens, right after {{ or right
\* before }} changes neither whether the template parses nor the value it
\* evaluates to.
C11_WhitespaceInsignificant ==
  src.fam = "ws"
    => /\ (api = "ParseString" /\ phase \in {"parsed", "resolved"})
            => parsed = ParseString(Canonical(src), mode)
       /\ phase = "replaced" => out = Replace(ctx, Canonical(src), mode)

\* {{ var2 . foo }} with CR LF at every place gives bar, as {{var2.foo}} does
C11_Witness ==
  /\ src = [fam |-> "ws", lex |-> <<NameVar2, <<".">>, NameFoo>>, at |-> -1,
            run |-> <<"CR", "LF">>]
  /\ phase = "replaced"
  /\ mode = "text"
  /\ ctx = CtxTest
  /\ s = <<"{", "{", "CR", "LF", "v", "a", "r", "2", "CR", "LF", ".", "CR",
           "LF", "f", "o", "o", "CR", "LF", "}", "}">>
  /\ out = Ok(TextBar)

\* the placeholder holding the text ParseVariable was given, parsed as a
\* template in text mode
AsPlaceholder == ParseString(<<"{", "{">> \o s \o <<"}", "}">>, "text")

SameOutcomes(v, w) == \A c \in Contexts : Resolve(v, c) = Resolve(w, c)

\* C17: ParseVariable parses exactly what a placeholder contains: for a text
\* e without }} (white space at either end allowed), ParseVariable(e)
\* succeeds if and only if ParseString("{{" + e + "}}") in text mode does, and
\* then both trees evaluate to the same outcome against every context.
C17_ParseVariableIsPlaceholder ==
  (api = "ParseVariable" /\ phase \in {"parsed", "resolved"})
    => /\ (parsed.st = "ok") <=> (AsPlaceholder.st = "ok")
       /\ parsed.st = "ok" => SameOutcomes(parsed.v, AsPlaceholder.v)

\* the same two operands under the other of == and !=
Sibling(x) == [x EXCEPT !.op = IF x.op = "==" THEN "!=" ELSE "=="]

\* what the sibling comparison evaluates to against the context
SiblingOutcome == Resolve(ParseVariable(Expression(Sibling(src))).v, ctx)

\* C12: for every pair of operands a != b evaluates to the boolean negation
\* of what a == b evaluates to, and neither returns an evaluation error.
C12_DifferentNegatesEqual ==
  (/\ src.fam = "cmp"
   /\ phase = "resolved"
   /\ api = "ParseVariable" \/ mode = "text")
    => /\ parsed.v.t = "varMath"
       /\ parsed.v.op = src.op
       /\ out.st = "ok"
       /\ out.v.k = "bool"
       /\ SiblingOutcome.st = "ok"
       /\ SiblingOutcome.v = [k |-> "bool", b |-> ~out.v.b]

\* 40 != '40.0' is false, for 40 == '40.0' is true
C12_Witness ==
  /\ src = [fam |-> "cmp", a |-> <<"4", "0">>, op |-> "!=",
            b |-> <<"'", "4", "0", ".", "0", "'">>]
  /\ phase = "resolved"
  /\ parsed.v.t = "varMath"
  /\ out = Ok([k |-> "bool", b |-> FALSE])

\* what placeholder number i of a multi input evaluates to on its own
PartOutcome(i) == Resolve(ParseVariable(src.parts[i]).v, ctx)

Failing == {i \in 1..Len(src.parts) : PartOutcome(i).st = "err"}

FirstFailing == CHOOSE i \in Failing : \A j \in Failing : i <= j

\* C16: no partial result: if evaluating one placeholder of a template
\* returns an evaluation error, evaluating the whole template returns that
\* error (of the first placeholder that fails) and no string, wherever the
\* failing placeholder stands and however many before it succeeded.
C16_NoPartialResult ==
  (/\ src.fam = "multi"
   /\ src.closed
   /\ phase \in {"resolved", "replaced"}
   /\ api # "ParseVariable"
   /\ Failing # {})
    => out = PartOutcome(FirstFailing)

\* -{{var}}-{{var2.foo}}-{{foo.var}}: the third placeholder fails after two
\* that succeeded
C16_Witness ==
  /\ src = [fam |-> "multi",
            parts |-> <<NameVar, NameVar2 \o <<".">> \o NameFoo,
                        NameFoo \o <<".">> \o NameVar>>,
            closed |-> TRUE]
  /\ phase = "replaced"
  /\ ctx = CtxTest
  /\ Failing = {3}
  /\ out = [st |-> "err", e |-> "lookup failed", offset |-> NameVar,
            type |-> "null"]

C15_ConcurrentResolve ==
  \A t \in Threads :
    thr[t].pc = "done" => thr[t].ret = Resolve(parsed.v, thr[t].ctx)

\* -{{var}}-{{foo.var}}: thread 1 has returned the lookup error against the
\* test context while thread 2, against the other context, is in its loop
C15_Witness ==
  /\ src.parts = <<NameVar, NameFoo \o <<".">> \o NameVar>>
  /\ mode = "text"
  /\ thr[1] = Returned(CtxTest, ErrLookup(NameVar, "null"))
  /\ thr[2].pc = "run"
  /\ thr[2].ctx = CtxOther
  /\ thr[2].i = 4
  /\ thr[2].res = <<"-">> \o AsString(Value(CtxOther, NameVar)) \o <<"-">>

\* the places of the registrations of a name among the first n
RegisteredAt(name, n) == {i \in 1..n : regs[i].name = name}

\* the function last registered under a name among the first n registrations,
\* nil when there is none
LastRegistered(name, n) ==
  IF RegisteredAt(name, n) = {} THEN "nil"
  ELSE regs[CHOOSE i \in RegisteredAt(name, n) :
              \A j \in RegisteredAt(name, n) : j <= i].fn

StartupNames == {"json", "html", "url", "upper", "lower"}

\* C19: LookupFilter(name) returns the function most recently registered
\* under that name (whatever was registered under other names), nil for a
\* name never registered, and json, html, url, upper and lower are
\* registered from startup.
C19_FilterRegistry ==
  /\ regs = <<>> => \A n \in StartupNames : n \in DOMAIN filters
  /\ found.st = "ok" =>
       /\ RegisteredAt(found.name, found.at) # {}
            => found.fn = LastRegistered(found.name, found.at)
       /\ (RegisteredAt(found.name, found.at) = {}
           /\ found.name \in StartupNames)
            => found.fn = Builtins[found.name] /\ found.fn # "nil"
       /\ (RegisteredAt(found.name, found.at) = {}
           /\ found.name \notin StartupNames)
            => found.fn = "nil"

\* upper registered twice, then looked up: the second function is returned
C19_Witness ==
  /\ regs = <<[name |-> "upper", fn |-> "fnA"], [name |-> "upper", fn |-> "fnB"]>>
  /\ found = [st |-> "ok", name |-> "upper", fn |-> "fnB", at |-> 2]

\* the lexemes that are operators: binary ones, the dot, unary ones
BinaryLexemes == {<<"+">>, <<"|">>, <<".">>}

UnaryLexemes == {<<"!">>, <<"~">>}

\* an operator of the sequence lacks an operand: the last lexeme is an
\* operator, the first is a binary one, or a binary one follows an operator
MissingOperand(lex) ==
  /\ lex # <<>>
  /\ \/ lex[Len(lex)] \in BinaryLexemes \cup UnaryLexemes
     \/ lex[1] \in BinaryLexemes
     \/ \E i \in 1..(Len(lex) - 1) :
          /\ lex[i] \in BinaryLexemes \cup UnaryLexemes
          /\ lex[i + 1] \in BinaryLexemes

\* C21: an operator with a missing operand (a trailing binary operator, a
\* trailing dot, two consecutive operators, a lone operator, a binary operator
\* with no left operand) is a syntax error returned by the parser, which
\* neither returns a tree nor aborts abnormally.
C21_MissingOperandError ==
  (/\ src.fam = "free"
   /\ MissingOperand(src.lex)
   /\ phase = "parsed")
    => parsed.st = "err"

\* C22: an unterminated placeholder is an unexpected-end-of-input error: for
\* a template in which {{ is followed by tokens, then optional white space,
\* then the end of the input, ParseString returns the unexpected-end-of-input
\* error, not an invalid-token error and not a tree.
C22_UnterminatedIsUnexpectedEOF ==
  (src.fam = "open" /\ phase = "parsed") => parsed = Err(ErrUnexpectedEOF)

\* what an operand of a logic input evaluates to on its own
OperandOutcome(x) == Resolve(ParseVariable(x).v, ctx)

OperandV(x) == OperandOutcome(x).v

\* a number as typutil.AsNumber returns it, a uint64 read as the integer it is
Numeric(v) ==
  IF AsNumber(v).v.k = "uint" THEN [k |-> "int", n |-> AsNumber(v).v.n]
  ELSE AsNumber(v).v

Coerces(v) == AsNumber(v).ok

\* the truth of a relation between two numbers, and between two strings
NumericRelation(op, a, b) ==
  CASE op = "<" -> NumCmp(a, b) < 0
    [] op = "<=" -> NumCmp(a, b) <= 0
    [] op = ">" -> NumCmp(a, b) > 0
    [] op = ">=" -> NumCmp(a, b) >= 0

StringRelation(op, a, b) ==
  CASE op = "<" -> StrLess(a, b)
    [] op = "<=" -> ~StrLess(b, a)
    [] op = ">" -> StrLess(b, a)
    [] op = ">=" -> ~StrLess(a, b)

\* the states in which a num input has been parsed as an expression and
\* resolved
NumResolved ==
  /\ src.fam = "num"
  /\ phase = "resolved"
  /\ api = "ParseVariable" \/ mode = "text"

\* C24: relational operators follow numeric order when both operands coerce
\* to numbers (signed integer, unsigned integer or float): a < b, a <= b,
\* a > b, a >= b are the truth of that comparison of the numeric values;
\* only when an operand fails numeric coercion is the result the
\* lexicographic comparison of the string forms.
C24_NumericOrder ==
  (NumResolved /\ src.op \in RelOps)
    => IF Coerces(OperandV(src.a)) /\ Coerces(OperandV(src.b))
         THEN out = Ok([k |-> "bool",
                        b |-> NumericRelation(src.op, Numeric(OperandV(src.a)),
                                              Numeric(OperandV(src.b)))])
         ELSE out = Ok([k |-> "bool",
                        b |-> StringRelation(src.op, AsString(OperandV(src.a)),
                                             AsString(OperandV(src.b)))])

\* the integer value of a number
IntegerOf(v) == IF v.k = "int" THEN v.n ELSE WholePart(v.f)

\* C25: shift operators work on integers and reject non-numbers: for
\* operands that both coerce to numbers (signed integer, unsigned integer or
\* float) a << b and a >> b are the integer value of a shifted left, or
\* arithmetically right, by the integer value of b; if an operand does not
\* coerce to a number the evaluation returns an error.
C25_IntegerShift ==
  (NumResolved /\ src.op \in ShiftOps)
    => IF Coerces(OperandV(src.a)) /\ Coerces(OperandV(src.b))
         THEN out = Ok([k |-> "int",
                        n |-> IF src.op = "<<"
                                THEN IntegerOf(Numeric(OperandV(src.a)))
                                       * Pow2(IntegerOf(Numeric(OperandV(src.b))))
                                ELSE IntegerOf(Numeric(OperandV(src.a)))
                                       \div Pow2(IntegerOf(Numeric(OperandV(src.b))))])
         ELSE out.st = "err"

\* a buffer without the white space it starts with
RECURSIVE Strip(_)
Strip(buf) == IF buf # <<>> /\ buf[1] \in Spaces THEN Strip(Tail(buf)) ELSE buf

\* the two-character operators and the one-character ones they start with
TwoCharToken ==
  (<<"=", "=">> :> "TokenEqual") @@ (<<"!", "=">> :> "TokenDifferent")
    @@ (<<"|", "|">> :> "TokenLogicOr") @@ (<<"&", "&">> :> "TokenLogicAnd")
    @@ (<<"<", "<">> :> "TokenShiftLeft") @@ (<<">", ">">> :> "TokenShiftRight")
    @@ (<<"<", "=">> :> "TokenLessEqual") @@ (<<">", "=">> :> "TokenGreaterEqual")

OneCharToken ==
  ("!" :> "TokenNot") @@ ("|" :> "TokenOr") @@ ("&" :> "TokenAnd")
    @@ ("<" :> "TokenLess") @@ (">" :> "TokenGreater")

\* the first two characters of a buffer (EOF where there is none)
Pair(buf) == <<cur(buf), next(buf)>>

\* C26: the tokenizer matches two-character operators greedily: when the
\* next two characters are ==, !=, ||, &&, <<, >>, <= or >= readToken returns
\* that one token and consumes both, and it returns the one-character token
\* (!, |, &, <, >) consuming one character otherwise; a = not followed by =
\* and a } not followed by } give an invalid token.
C26_GreedyOperators ==
  phase = "token"
    => /\ Pair(Strip(s)) \in DOMAIN TwoCharToken
            => /\ out.tok = TwoCharToken[Pair(Strip(s))]
               /\ out.buf = Tail(Tail(Strip(s)))
       /\ (/\ cur(Strip(s)) \in DOMAIN OneCharToken
           /\ Pair(Strip(s)) \notin DOMAIN TwoCharToken)
            => /\ out.tok = OneCharToken[cur(Strip(s))]
               /\ out.buf = Tail(Strip(s))
       /\ (cur(Strip(s)) \in {"=", "}"} /\ next(Strip(s)) # cur(Strip(s)))
            => out.tok = "TokenInvalid"

\* !== is read as != and leaves =
C26_Witness ==
  /\ phase = "token"
  /\ s = <<"!", "=", "=">>
  /\ out.tok = "TokenDifferent"
  /\ out.buf = <<"=">>

\* the longest start of a buffer made of digits and at most one point
RECURSIVE NumberRun(_, _)
NumberRun(buf, hasDot) ==
  IF buf = <<>> THEN <<>>
  ELSE IF buf[1] \in Digits THEN <<buf[1]>> \o NumberRun(Tail(buf), hasDot)
  ELSE IF buf[1] = "." /\ ~hasDot THEN <<".">> \o NumberRun(Tail(buf), TRUE)
  ELSE <<>>

\* C27: a Number token is the longest run of digits with at most one decimal
\* point, starting at a digit: a second point is not consumed and is not
\* part of the token's text, and what follows is tokenized from that point.
C27_NumberToken ==
  phase = "token"
    => /\ cur(Strip(s)) \in Digits <=> out.tok = "TokenNumber"
       /\ out.tok = "TokenNumber"
            => /\ out.dat = NumberRun(Strip(s), FALSE)
               /\ out.dat \o out.buf = Strip(s)

\* 1.2.3: the token is 1.2 and .3 is left
C27_Witness ==
  /\ phase = "token"
  /\ s = <<"1", ".", "2", ".", "3">>
  /\ out = [tok |-> "TokenNumber", dat |-> <<"1", ".", "2">>,
            buf |-> <<".", "3">>]

\* the nodes a multi input produces, in document order: for every
\* placeholder the dash before it and its expression
RECURSIVE Nodes(_)
Nodes(parts) ==
  IF parts = <<>> THEN <<>>
  ELSE <<[t |-> "staticVar", v |-> [k |-> "str", s |-> <<"-">>]],
         ParseVariable(parts[1]).v>> \o Nodes(Tail(parts))

\* C28: shape of the literal parser's result: a template that produced no
\* node (the empty template) gives the Empty node, which evaluates to null;
\* one that produced two or more (a dash and an expression per
\* placeholder) gives the Concatenation of them in document order.
C28_LiteralResultShape ==
  (/\ src.fam = "multi"
   /\ src.closed
   /\ api = "ParseString"
   /\ mode = "text"
   /\ phase \in {"parsed", "resolved"})
    => /\ Len(Nodes(src.parts)) = 0
            => /\ parsed = Ok([t |-> "varNull"])
               /\ phase = "resolved" => out = Ok([k |-> "null"])
       /\ Len(Nodes(src.parts)) >= 2
            => parsed = Ok([t |-> "varConcat", subs |-> Nodes(src.parts)])

\* the trees the precedence rules give the expressions of UnaryExprs
UnaryTrees ==
  << varNot(varAccessOffset(varFetchFromCtx(NameVar2), NameFoo)),
     varBitwiseNot(varFetchFromCtx(NameNum)),
     varMath(varNot(varFetchFromCtx(NameVar)), varFetchFromCtx(NameNum), "+"),
     varMath(varFetchFromCtx(NameVar), varNot(varFetchFromCtx(NameNum)),
             "&&") >>

\* C29: member access binds tighter than the unary operators, and the
\* unary operators ! and ~ bind tighter than every binary operator wherever
\* they occur: !a.b parses as Not(MemberAccess(a, b)), ~a as BitwiseNot(a),
\* !a + b as BinaryOperation(Not(a), +, b) and a && !b as
\* BinaryOperation(a, &&, Not(b)).
C29_UnaryBinding ==
  (/\ src.fam = "unary"
   /\ api = "ParseVariable"
   /\ phase = "parsed")
    => parsed = Ok(UnaryTrees[src.id])

\* C30: parsing always terminates: for every finite input ParseString and
\* ParseVariable return an AST or an error.
C30_ParseReturns ==
  phase = "parsed" => parsed.st \in {"ok", "err"}

=============================================================================
